---- MODULE Spec2Model ----
(***************************************************************************)
(* The realtime session controller of BizFlow Pro: the useLiveApi hook     *)
(* (src/hooks/useLiveApi.ts) as driven by its callers, the browser and the *)
(* remote realtime endpoint.                                               *)
(*                                                                         *)
(* Every connect() call k owns what it creates: the input and output audio *)
(* contexts, the microphone request and stream, the transport (the promise *)
(* returned by ai.live.connect and the socket behind it) and the script    *)
(* processor made in its onopen callback.  The hook's refs hold 0 (null)   *)
(* or the number k of the call whose object they point at.  The React      *)
(* state cells hold the value last passed to their setter.                 *)
(*                                                                         *)
(* One action is one task of the event loop.  The continuation after       *)
(* `await decodeAudioData(...)` is a microtask: DecodeDone runs before any *)
(* other task (every other action waits for decoding = << >>).             *)
(***************************************************************************)
EXTENDS Integers, Sequences, FiniteSets, TLC

\* ---------------------------------------------------------------- bounds
MaxConnects == 2   \* connect() calls in one run
MaxMsgs     == 1   \* inbound server messages in one run
MaxFrames   == 1   \* capture frames in one run
MaxClock    == 1   \* ticks of the wall clock
MaxDur      == 1   \* longest inbound buffer, in ticks
\* The playback runs (PlaySpec) take more messages and a longer clock.
MaxPlayMsgs  == 3
MaxPlayClock == 2
MaxPlayDur   == 1
\* The codec runs (CodecSpec): longest frame and longest byte buffer.
MaxLen   == 3
MaxBytes == 4
\* The pipeline runs (PipeSpec): analyzeDocument calls in one run.
MaxRuns  == 2
\* The analysis view (ViewSpec): voice-synthesis requests in one run.
MaxPlays == 3

Calls   == 1..MaxConnects
Msgs    == 1..(IF MaxPlayMsgs > MaxMsgs THEN MaxPlayMsgs ELSE MaxMsgs)
Frames  == 1..MaxFrames

\* ------------------------------------------------------------- constants
NoError  == "null"
ConnErr  == "Connection error. Please try again."
LiveErr  == "Failed to connect to Live API"
MicErr   == "Permission denied"
FullVolume == 100          \* volume is kept in hundredths: 100 is 1.0
Levels  == {0, 40, 250}    \* 5 * RMS of a capture frame, in hundredths

VARIABLES
  isConnected, isConnecting, error, volume,     \* useState cells
  sessionPromiseRef, audioContextRef, inputContextRef,
  scriptProcessorRef, streamRef, sourcesRef, nextStartTimeRef,   \* useRef cells
  nCalls,      \* connect() calls so far
  callPc,      \* per call: "idle" | "awaitMic" | "done" | "caught"
  inCtx,       \* per call: input AudioContext  "none" | "running" | "closed"
  outCtx,      \* per call: output AudioContext "none" | "running" | "closed"
  stream,      \* per call: microphone stream   "none" | "live" | "stopped"
  proc,        \* per call: script processor    "none" | "active" | "disconnected"
  tr,          \* per call: transport "none" | "opening" | "open" | "closing"
               \*           | "failed" | "closed" | "rejected"
  resolved,    \* per call: the session promise has resolved
  thens,       \* per call: then-callbacks waiting for the session promise
  sent,        \* per call: frames handed to the open socket, in order
  now, birth,  \* wall clock; per call: the clock when its contexts were made
  srcs,        \* per message: the buffer source it made
  nMsgs, nFrames,
  decoding,    \* << >> or the one onmessage continuation waiting after the await
  dropped,     \* the messages whose handler ended in a decoding exception
  mounted,     \* the owning component is mounted
  lastDisc,    \* nCalls when disconnect() last ran (0: never)
  \* The audio helpers of lines 33-110, run on one input:
  codecPc,     \* "idle" | "frame" | "resampled" | "blob" | "raw" | "encoded"
               \*   | "decoded" | "audio" | "threw"
  frame,       \* Float32Array: samples in units of 1 / SampleDen
  inRate, outRate,   \* sample rates, in kHz
  resampled,   \* what downsample returned: samples in units of 1 / (den * SampleDen)
  raw,         \* Uint8Array handed to encode
  payload,     \* base64 text: a sequence of sextets, B64Pad for "="
  decoded,     \* Uint8Array returned by decode
  channelData, \* channel data of the AudioBuffer: samples in units of 1 / PcmDiv
  \* analyzeDocument (src/services/gemini.ts), per run:
  runs,        \* [pc, reported, started, returned, settled]
  \* AnalysisView (src/unnamed/part_000 lines 31-124), its one-shot playback:
  isPlaying,            \* useState: "null" | "summary" | "action"
  viewAudioContextRef,  \* its audioContextRef: 0 (null) or the request whose context it holds
  audioSourceRef,       \* 0 (null) or the request whose source it holds
  nPlays,      \* voice-synthesis requests so far
  playPc,      \* per request: "idle" | "awaitVoice" | "awaitDecode" | "done" | "caught"
  playType,    \* per request: the button that made it
  playCtx,     \* per request: its AudioContext "none" | "running" | "closed"
  playSrc,     \* per request: its source "none" | "playing" | "stopped" | "ended"
  viewMounted,
  stale,       \* the requests that were pending when the user stopped playback
  \* App (src/App.tsx):
  input,       \* useState: "null" | "text" | "file"
  isAnalyzing, agentStage, result, history,    \* useState cells; result 0 is null
  stored,      \* localStorage 'bizflow_history': [set, items]
  loaded,      \* the effect of lines 23-32 has run
  seenHistory, \* `history` in the closure of the handleAnalyze that is running
  selected     \* a history entry was picked since the last analysis began

stateVars == <<isConnected, isConnecting, error, volume>>
refVars   == <<sessionPromiseRef, audioContextRef, inputContextRef,
               scriptProcessorRef, streamRef, sourcesRef, nextStartTimeRef>>
callVars  == <<nCalls, callPc, inCtx, outCtx, stream, proc, tr, resolved, thens, sent>>
envVars   == <<now, birth, srcs, nMsgs, nFrames, decoding, dropped, mounted, lastDisc>>
codecVars == <<codecPc, frame, inRate, outRate, resampled, raw, payload, decoded, channelData>>
viewVars  == <<isPlaying, viewAudioContextRef, audioSourceRef, nPlays, playPc,
               playType, playCtx, playSrc, viewMounted, stale>>
shellVars == <<input, isAnalyzing, agentStage, result, history, stored, loaded,
               seenHistory, selected>>
appVars   == <<viewVars, shellVars>>
sideVars  == <<codecVars, runs, appVars>>
hookVars  == <<stateVars, refVars, callVars, envVars>>
vars      == <<hookVars, sideVars>>

NoSource == [st |-> "none", ctx |-> 0, start |-> 0, dur |-> 0, tr |-> 0]

HookInit ==
  /\ isConnected = FALSE /\ isConnecting = FALSE /\ error = NoError /\ volume = 0
  /\ sessionPromiseRef = 0 /\ audioContextRef = 0 /\ inputContextRef = 0
  /\ scriptProcessorRef = 0 /\ streamRef = 0 /\ sourcesRef = {}
  /\ nextStartTimeRef = 0
  /\ nCalls = 0
  /\ callPc = [k \in Calls |-> "idle"]
  /\ inCtx = [k \in Calls |-> "none"]
  /\ outCtx = [k \in Calls |-> "none"]
  /\ stream = [k \in Calls |-> "none"]
  /\ proc = [k \in Calls |-> "none"]
  /\ tr = [k \in Calls |-> "none"]
  /\ resolved = [k \in Calls |-> FALSE]
  /\ thens = [k \in Calls |-> << >>]
  /\ sent = [k \in Calls |-> << >>]
  /\ now = 0
  /\ birth = [k \in Calls |-> 0]
  /\ srcs = [m \in Msgs |-> NoSource]
  /\ nMsgs = 0 /\ nFrames = 0
  /\ decoding = << >>
  /\ dropped = {}
  /\ mounted = TRUE
  /\ lastDisc = 0

\* ctx.currentTime of the output context made by call c
CurrentTime(c) == now - birth[c]

Max(a, b) == IF a >= b THEN a ELSE b
Min(a, b) == IF a <= b THEN a ELSE b

\* ------------------------------------------------------ the audio helpers
PcmScale   == 32767            \* 0x7FFF, line 82
PcmDiv     == 32768            \* line 107
FrameSize  == 4096             \* createScriptProcessor(4096, 1, 1), line 148
TargetRate == 16               \* downsample(..., 16000), line 161, in kHz
B64Pad     == 64               \* the "=" of base64 text
\* Float samples are kept on a grid twice as fine as the 16-bit one; every
\* value on it is an exact float32.
SampleDen  == 2 * PcmDiv

Rates      == {TargetRate, 24, 48}
SampleVals == {-SampleDen, 0, SampleDen \div 2, SampleDen - 1, SampleDen, 2 * SampleDen}
ByteVals   == {0, 1, 128, 255}

\* All sequences over S of length at most n.
SeqsUpTo(S, n) == UNION {[1..l -> S] : l \in 0..n}

\* Math.round: the nearest integer to a / b, halves upwards (a >= 0, b > 0).
Round(a, b) == (2 * a + b) \div (2 * b)

\* The integer part of a / b, as the conversion to an integer type takes it
\* (towards zero), b > 0.
Trunc(a, b) == IF a >= 0 THEN a \div b ELSE -((-a) \div b)

\* buffer[i] of a typed array, 0-based; undefined past the end.  JavaScript's
\* a || b takes b when a is undefined or 0.
Has(buffer, i) == i < Len(buffer)
OrElse(buffer, i, b) == IF Has(buffer, i) /\ buffer[i + 1] # 0 THEN buffer[i + 1] ELSE b

\* A length that drops the fraction; C24 tells the two apart.
NewLengthFloor(len, inputRate, outputRate) == (len * outputRate) \div inputRate

\* The output length of downsample, lines 56-57:
\* Math.round(buffer.length / (inputRate / outputRate)).
NewLength(len, inputRate, outputRate) == Round(len * outputRate, inputRate)

\* One output sample of downsample, lines 60-70, in units of
\* 1 / (outputRate * SampleDen): index = i * ratio, t = index - floor,
\* v0 = buffer[floor] || 0, v1 = buffer[ceil] || buffer[floor] || 0.
Interpolate(buffer, i, inputRate, outputRate) ==
  LET floor == (i * inputRate) \div outputRate
      rem   == (i * inputRate) % outputRate
      ceil  == IF rem = 0 THEN floor ELSE floor + 1
      v0    == OrElse(buffer, floor, 0)
      v1    == OrElse(buffer, ceil, OrElse(buffer, floor, 0))
  IN  v0 * outputRate + (v1 - v0) * rem

\* A resampler that always goes to the capture target rate; C25 tells the
\* two apart.
downsampleToTarget(buffer, inputRate, outputRate) ==
  IF inputRate = TargetRate
    THEN [den |-> 1, num |-> buffer]
    ELSE [den |-> TargetRate,
          num |-> [j \in 1..NewLength(Len(buffer), inputRate, TargetRate) |->
                     Interpolate(buffer, j - 1, inputRate, TargetRate)]]

\* downsample, lines 54-73: the buffer itself when the rates are equal.
downsample(buffer, inputRate, outputRate) ==
  IF inputRate = outputRate
    THEN [den |-> 1, num |-> buffer]
    ELSE [den |-> outputRate,
          num |-> [j \in 1..NewLength(Len(buffer), inputRate, outputRate) |->
                     Interpolate(buffer, j - 1, inputRate, outputRate)]]

\* A value stored into an Int16Array: modulo 2^16, into -32768..32767.
ToInt16(n) == LET u == n % 65536 IN IF u >= 32768 THEN u - 65536 ELSE u

\* An encoder that forgets the scale; C22 tells the two apart.
PcmUnscaled(c) == ToInt16(Trunc(Max(-SampleDen, Min(SampleDen, c)), SampleDen))

\* Line 82: Math.max(-1, Math.min(1, data[i])) * 0x7FFF stored as int16.
PcmOf(c) == ToInt16(Trunc(Max(-SampleDen, Min(SampleDen, c)) * PcmScale, SampleDen))

\* new Uint8Array(int16.buffer), line 85: two bytes per sample, low byte first.
RECURSIVE BytesOf(_)
BytesOf(ints) ==
  IF ints = << >> THEN << >>
  ELSE LET u == Head(ints) % 65536
       IN  <<u % 256, u \div 256>> \o BytesOf(Tail(ints))

\* new Int16Array(data.buffer), line 96, of a buffer of even length.
RECURSIVE Int16sOf(_)
Int16sOf(bytes) ==
  IF Len(bytes) < 2 THEN << >>
  ELSE <<ToInt16(bytes[1] + 256 * bytes[2])>> \o Int16sOf(SubSeq(bytes, 3, Len(bytes)))

\* btoa on a binary string of one to three characters: four sextets.
EncodeGroup(g) ==
  IF Len(g) = 3
    THEN <<g[1] \div 4, (g[1] % 4) * 16 + g[2] \div 16, (g[2] % 16) * 4 + g[3] \div 64,
           g[3] % 64>>
  ELSE IF Len(g) = 2
    THEN <<g[1] \div 4, (g[1] % 4) * 16 + g[2] \div 16, (g[2] % 16) * 4, B64Pad>>
    ELSE <<g[1] \div 4, (g[1] % 4) * 16, B64Pad, B64Pad>>

RECURSIVE btoa(_)
btoa(binary) ==
  IF binary = << >> THEN << >>
  ELSE IF Len(binary) <= 3 THEN EncodeGroup(binary)
  ELSE EncodeGroup(SubSeq(binary, 1, 3)) \o btoa(SubSeq(binary, 4, Len(binary)))

\* atob on four sextets: three characters, fewer before padding.
DecodeGroup(q) ==
  IF q[3] = B64Pad THEN <<q[1] * 4 + q[2] \div 16>>
  ELSE IF q[4] = B64Pad
    THEN <<q[1] * 4 + q[2] \div 16, (q[2] % 16) * 16 + q[3] \div 4>>
    ELSE <<q[1] * 4 + q[2] \div 16, (q[2] % 16) * 16 + q[3] \div 4, (q[3] % 4) * 64 + q[4]>>

RECURSIVE atob(_)
atob(text) ==
  IF Len(text) < 4 THEN << >>
  ELSE DecodeGroup(SubSeq(text, 1, 4)) \o atob(SubSeq(text, 5, Len(text)))

\* String.fromCharCode(bytes[i]) and bytes[i] = binaryString.charCodeAt(i):
\* a byte becomes the character of that code and back.
\* A charCodeAt read as a signed byte; C23 tells the two apart.
ByteOfCharSigned(c) == IF c >= 128 THEN c - 256 ELSE c

CharOfByte(b) == b % 65536
ByteOfChar(c) == c % 256

\* encode, lines 44-51, and decode, lines 33-41.
encode(bytes) == btoa([i \in 1..Len(bytes) |-> CharOfByte(bytes[i])])
decode(base64) == LET binaryString == atob(base64)
                  IN  [i \in 1..Len(binaryString) |-> ByteOfChar(binaryString[i])]

NoResample == [den |-> 1, num |-> << >>]

CodecIdle ==
  /\ codecPc = "idle" /\ frame = << >> /\ inRate = TargetRate /\ outRate = TargetRate
  /\ resampled = NoResample /\ raw = << >> /\ payload = << >> /\ decoded = << >>
  /\ channelData = << >>

\* ------------------------------------------------------- analyzeDocument
Runs == 1..MaxRuns

\* The stages in the order analyzeDocument goes through them, lines 242-258.
Stages == <<"ingestion", "classification", "extraction", "action", "complete">>

NoRun == [pc |-> "idle", reported |-> << >>, started |-> << >>, returned |-> 0,
          settled |-> "pending"]

PipeIdle == runs = [r \in Runs |-> NoRun]

\* ------------------------------------------------------- AnalysisView
Plays == 1..MaxPlays

\* Lines 35-37: nothing playing, both refs null.
ViewIdle ==
  /\ isPlaying = "null" /\ viewAudioContextRef = 0 /\ audioSourceRef = 0
  /\ nPlays = 0
  /\ playPc = [k \in Plays |-> "idle"]
  /\ playType = [k \in Plays |-> "null"]
  /\ playCtx = [k \in Plays |-> "none"]
  /\ playSrc = [k \in Plays |-> "none"]
  /\ viewMounted = TRUE
  /\ stale = {}

\* ---------------------------------------------------------------- App
\* saveToHistory keeps the last 10, src/App.tsx line 35.
HistoryCap == 10

NoStore == [set |-> FALSE, items |-> << >>]

\* Lines 11-20 of src/App.tsx, with local storage holding `st`.
ShellStart(st) ==
  /\ input = "null" /\ isAnalyzing = FALSE /\ agentStage = "idle" /\ result = 0
  /\ history = << >> /\ stored = st /\ loaded = FALSE
  /\ seenHistory = << >> /\ selected = FALSE

ShellIdle == ShellStart(NoStore)

Init == HookInit /\ CodecIdle /\ PipeIdle /\ ViewIdle /\ ShellIdle

\* ------------------------------------------------- the session promise
\* A callback registered with sessionPromise.then(...): a frame to send
\* (onaudioprocess) or the close of disconnect().
SendCb(f) == [cb |-> "send", frame |-> f]
CloseCb   == [cb |-> "close", frame |-> 0]

\* One then-callback run against the resolved session: sendRealtimeInput
\* reaches the peer only on an open socket; close() starts the closing
\* handshake of an open socket and is a no-op otherwise.
RunCb(s, cb) ==
  IF cb.cb = "send"
    THEN IF s.tr = "open" THEN [s EXCEPT !.sent = Append(@, cb.frame)] ELSE s
    ELSE IF s.tr = "open" THEN [s EXCEPT !.tr = "closing"] ELSE s

RECURSIVE RunCbs(_, _)
RunCbs(s, q) == IF q = << >> THEN s ELSE RunCbs(RunCb(s, Head(q)), Tail(q))

\* promise.then(cb) on the session promise of call k, given the transport
\* maps (t, r, q, s): run at once when the promise has resolved, queued
\* while it is pending, lost when it was rejected.
ThenTr(k, cb, t, r, q, s) ==
  IF r[k] THEN [t EXCEPT ![k] = RunCb([tr |-> t[k], sent |-> s[k]], cb).tr] ELSE t
ThenSent(k, cb, t, r, q, s) ==
  IF r[k] THEN [s EXCEPT ![k] = RunCb([tr |-> t[k], sent |-> s[k]], cb).sent] ELSE s
ThenQueue(k, cb, t, r, q, s) ==
  IF r[k] \/ t[k] = "rejected" THEN q ELSE [q EXCEPT ![k] = Append(@, cb)]

\* -------------------------------------------------------------- connect
\* connect(), lines 112-129: the state setters, both audio contexts, the
\* refs, and the microphone request it then awaits.
Connect ==
  /\ decoding = << >> /\ mounted
  /\ UNCHANGED sideVars
  /\ nCalls < MaxConnects
  /\ LET k == nCalls + 1 IN
     /\ nCalls' = k
     /\ isConnecting' = TRUE
     /\ error' = NoError
     /\ inCtx' = [inCtx EXCEPT ![k] = "running"]
     /\ outCtx' = [outCtx EXCEPT ![k] = "running"]
     /\ birth' = [birth EXCEPT ![k] = now]
     /\ inputContextRef' = k
     /\ audioContextRef' = k
     /\ nextStartTimeRef' = now - birth'[k]     \* outputCtx.currentTime
     /\ callPc' = [callPc EXCEPT ![k] = "awaitMic"]
  /\ UNCHANGED <<isConnected, volume, sessionPromiseRef, scriptProcessorRef,
                 streamRef, sourcesRef, stream, proc, tr, resolved, thens, sent,
                 now, srcs, nMsgs, nFrames, decoding, dropped, mounted, lastDisc>>

\* connect() when a constructor of lines 117-121 throws (no API key, no
\* audio device): the catch of lines 225-229 runs before anything is kept.
ConnectThrows ==
  /\ decoding = << >> /\ mounted
  /\ UNCHANGED sideVars
  /\ nCalls < MaxConnects
  /\ nCalls' = nCalls + 1
  /\ callPc' = [callPc EXCEPT ![nCalls + 1] = "caught"]
  /\ isConnecting' = FALSE
  /\ error' = LiveErr
  /\ UNCHANGED <<isConnected, volume, refVars, inCtx, outCtx, stream, proc, tr,
                 resolved, thens, sent, envVars>>

\* getUserMedia resolves, lines 128-223: the stream is kept, the transport
\* is opened and its promise kept.
MicGranted(k) ==
  /\ decoding = << >>
  /\ UNCHANGED sideVars
  /\ callPc[k] = "awaitMic"
  /\ callPc' = [callPc EXCEPT ![k] = "done"]
  /\ stream' = [stream EXCEPT ![k] = "live"]
  /\ streamRef' = k
  /\ tr' = [tr EXCEPT ![k] = "opening"]
  /\ sessionPromiseRef' = k
  /\ UNCHANGED <<stateVars, audioContextRef, inputContextRef, scriptProcessorRef,
                 sourcesRef, nextStartTimeRef, nCalls, inCtx, outCtx, proc,
                 resolved, thens, sent, envVars>>

\* getUserMedia rejects: the catch of lines 225-229.
MicDenied(k) ==
  /\ decoding = << >>
  /\ UNCHANGED sideVars
  /\ callPc[k] = "awaitMic"
  /\ callPc' = [callPc EXCEPT ![k] = "caught"]
  /\ error' = MicErr
  /\ isConnecting' = FALSE
  /\ UNCHANGED <<isConnected, volume, refVars, nCalls, inCtx, outCtx, stream, proc,
                 tr, resolved, thens, sent, envVars>>

\* ------------------------------------------------- transport callbacks
\* onopen, lines 141-173.  createMediaStreamSource on an input context
\* that disconnect() already closed may throw (the browsers differ): then
\* no processor is made, and the session promise may stay pending.  When
\* the promise resolves, the callbacks waiting on it run in order.
OnOpen(k) ==
  /\ decoding = << >>
  /\ UNCHANGED sideVars
  /\ tr[k] = "opening"
  /\ isConnected' = TRUE
  /\ isConnecting' = FALSE
  /\ \E throws \in (IF inCtx[k] = "running" THEN {FALSE} ELSE BOOLEAN) :
     \E res \in (IF throws THEN BOOLEAN ELSE {TRUE}) :
       /\ proc' = IF throws THEN proc ELSE [proc EXCEPT ![k] = "active"]
       /\ scriptProcessorRef' = IF throws THEN scriptProcessorRef ELSE k
       /\ resolved' = [resolved EXCEPT ![k] = res]
       /\ LET s == IF res THEN RunCbs([tr |-> "open", sent |-> sent[k]], thens[k])
                          ELSE [tr |-> "open", sent |-> sent[k]] IN
          /\ tr' = [tr EXCEPT ![k] = s.tr]
          /\ sent' = [sent EXCEPT ![k] = s.sent]
       /\ thens' = IF res THEN [thens EXCEPT ![k] = << >>] ELSE thens
  /\ UNCHANGED <<error, volume, sessionPromiseRef, audioContextRef, inputContextRef,
                 streamRef, sourcesRef, nextStartTimeRef, nCalls, callPc, inCtx,
                 outCtx, stream, envVars>>

\* onerror, lines 214-219: the socket failed while opening, open or closing.
OnError(k) ==
  /\ decoding = << >>
  /\ UNCHANGED sideVars
  /\ tr[k] \in {"opening", "open", "closing"}
  /\ tr' = [tr EXCEPT ![k] = "failed"]
  /\ error' = ConnErr
  /\ isConnected' = FALSE
  /\ isConnecting' = FALSE
  /\ UNCHANGED <<volume, refVars, nCalls, callPc, inCtx, outCtx, stream, proc,
                 resolved, thens, sent, envVars>>

\* onclose, lines 210-213: the socket closed (dropped by the peer, closed by
\* session.close(), or after an error).
OnClose(k) ==
  /\ decoding = << >>
  /\ UNCHANGED sideVars
  /\ tr[k] \in {"open", "closing", "failed"}
  /\ tr' = [tr EXCEPT ![k] = "closed"]
  /\ isConnected' = FALSE
  /\ UNCHANGED <<isConnecting, error, volume, refVars, nCalls, callPc, inCtx, outCtx,
                 stream, proc, resolved, thens, sent, envVars>>

\* The promise of ai.live.connect (line 131) rejects: connect() does not
\* await it, so no code of the hook runs; the callbacks waiting on it are lost.
Reject(k) ==
  /\ decoding = << >>
  /\ UNCHANGED sideVars
  /\ tr[k] = "opening"
  /\ tr' = [tr EXCEPT ![k] = "rejected"]
  /\ thens' = [thens EXCEPT ![k] = << >>]
  /\ UNCHANGED <<stateVars, refVars, nCalls, callPc, inCtx, outCtx, stream, proc,
                 resolved, sent, envVars>>

\* ------------------------------------------------------------- playback
\* A flush that stops only the sources already playing; C27 tells the two
\* apart.
StopPlaying(ss, set) ==
  [m \in Msgs |-> IF m \in set /\ ss[m].st = "scheduled"
                       /\ ss[m].start <= CurrentTime(ss[m].ctx)
                    THEN [ss[m] EXCEPT !.st = "stopped"] ELSE ss[m]]

\* A flush that stops nothing; C28 tells the two apart.
StopNone(ss, set) == ss

\* src.stop() on every source of the set (a source no longer scheduled is
\* left as it is: stop() throws into the empty catch or does nothing).
StopAll(ss, set) ==
  [m \in Msgs |-> IF m \in set /\ ss[m].st = "scheduled"
                    THEN [ss[m] EXCEPT !.st = "stopped"] ELSE ss[m]]

\* decode (lines 33-41) and decodeAudioData (lines 90-110) on a payload:
\* atob throws on text that is not base64, new Int16Array(data.buffer) on
\* an odd byte length; a well-formed payload decodes.
\* A decoder that accepts every payload; C20 tells the two apart.
DecodesAnything(audio) == TRUE

Decodes(audio) == audio = "ok"

\* nextStartTimeRef left as it is by the interrupted branch; C18 tells the
\* two apart.
FlushNextStartKept == nextStartTimeRef

\* Line 207: nextStartTimeRef.current = 0.
FlushNextStart == 0

\* onmessage up to its await, lines 174-184, and all of it when it does not
\* await: a message with no audio, or one handled while audioContextRef is
\* null, goes straight to the interrupted check (lines 202-208); decode or
\* decodeAudioData throwing on a malformed payload ends the handler.
\* At most `limit` messages are delivered in one run.
OnMessageTo(limit, k, audio, intr, dur) ==
  /\ decoding = << >>
  /\ UNCHANGED sideVars
  /\ tr[k] \in {"open", "closing"}
  /\ nMsgs < limit
  /\ nMsgs' = nMsgs + 1
  /\ IF audio # "none" /\ audioContextRef # 0
       THEN /\ decoding' = IF ~Decodes(audio) THEN << >>
                           ELSE <<[msg |-> nMsgs + 1, tr |-> k, ctx |-> audioContextRef,
                                   dur |-> dur, intr |-> intr]>>
            /\ dropped' = IF ~Decodes(audio) THEN dropped \cup {nMsgs + 1} ELSE dropped
            /\ UNCHANGED <<srcs, sourcesRef, nextStartTimeRef>>
       ELSE /\ decoding' = << >>
            /\ srcs' = IF intr THEN StopAll(srcs, sourcesRef) ELSE srcs
            /\ sourcesRef' = IF intr THEN {} ELSE sourcesRef
            /\ nextStartTimeRef' = IF intr THEN FlushNextStart ELSE nextStartTimeRef
            /\ UNCHANGED dropped
  /\ UNCHANGED <<stateVars, sessionPromiseRef, audioContextRef, inputContextRef,
                 scriptProcessorRef, streamRef, callVars, now, birth, nFrames,
                 mounted, lastDisc>>

OnMessage(k, audio, intr, dur) == OnMessageTo(MaxMsgs, k, audio, intr, dur)

\* A start time that ignores nextStartTimeRef; C17 tells the two apart.
StartTimeNow(ctx) == CurrentTime(ctx)

\* Line 187: Math.max(nextStartTimeRef.current, ctx.currentTime).
StartTime(ctx) == Max(nextStartTimeRef, CurrentTime(ctx))

\* onmessage after its await, lines 186-208: the buffer is scheduled, then
\* the interrupted flag is looked at.
DecodeDone ==
  /\ decoding # << >>
  /\ UNCHANGED sideVars
  /\ LET d == decoding[1]
         startTime == StartTime(d.ctx)
         made == [srcs EXCEPT ![d.msg] = [st |-> "scheduled", ctx |-> d.ctx,
                                          start |-> startTime, dur |-> d.dur,
                                          tr |-> d.tr]]
     IN /\ srcs' = IF d.intr THEN StopAll(made, sourcesRef \cup {d.msg}) ELSE made
        /\ sourcesRef' = IF d.intr THEN {} ELSE sourcesRef \cup {d.msg}
        /\ nextStartTimeRef' = IF d.intr THEN FlushNextStart ELSE startTime + d.dur
  /\ decoding' = << >>
  /\ UNCHANGED <<stateVars, sessionPromiseRef, audioContextRef, inputContextRef,
                 scriptProcessorRef, streamRef, callVars, now, birth, nMsgs, nFrames,
                 dropped, mounted, lastDisc>>

\* An onended that leaves the set alone; C29 tells the two apart.
SetAfterEndedKept(m) == sourcesRef

\* Lines 196-198: sourcesRef.current.delete(source).
SetAfterEnded(m) == sourcesRef \ {m}

\* source.onended, lines 196-198: a scheduled buffer played to its end.
SourceEnded(m) ==
  /\ decoding = << >>
  /\ UNCHANGED sideVars
  /\ srcs[m].st = "scheduled"
  /\ outCtx[srcs[m].ctx] = "running"
  /\ CurrentTime(srcs[m].ctx) >= srcs[m].start + srcs[m].dur
  /\ srcs' = [srcs EXCEPT ![m].st = "ended"]
  /\ sourcesRef' = SetAfterEnded(m)
  /\ UNCHANGED <<stateVars, sessionPromiseRef, audioContextRef, inputContextRef,
                 scriptProcessorRef, streamRef, nextStartTimeRef, callVars, now,
                 birth, nMsgs, nFrames, decoding, dropped, mounted, lastDisc>>

\* The clocks of the audio contexts advance, `limit` ticks at most in one run.
TickTo(limit) ==
  /\ decoding = << >>
  /\ UNCHANGED sideVars
  /\ now < limit
  /\ now' = now + 1
  /\ UNCHANGED <<stateVars, refVars, callVars, birth, srcs, nMsgs, nFrames,
                 decoding, dropped, mounted, lastDisc>>

Tick == TickTo(MaxClock)

\* -------------------------------------------------------------- capture
\* A meter that publishes the raw level; C21 tells the two apart.
VolumeRaw(level) == level

\* The volume meter of line 158: Math.min(1, rms * 5).
VolumeOf(level) == Min(FullVolume, level)

\* onaudioprocess, lines 151-169: a processor connected in a running input
\* context delivers a frame; a stopped stream delivers silence.
AudioProcess(p, level) ==
  /\ decoding = << >>
  /\ UNCHANGED sideVars
  /\ proc[p] = "active" /\ inCtx[p] = "running"
  /\ stream[p] = "live" \/ level = 0
  /\ nFrames < MaxFrames
  /\ nFrames' = nFrames + 1
  /\ volume' = VolumeOf(level)
  /\ LET k == sessionPromiseRef
         cb == SendCb(nFrames + 1) IN
     IF k # 0
       THEN /\ tr' = ThenTr(k, cb, tr, resolved, thens, sent)
            /\ sent' = ThenSent(k, cb, tr, resolved, thens, sent)
            /\ thens' = ThenQueue(k, cb, tr, resolved, thens, sent)
       ELSE UNCHANGED <<tr, sent, thens>>
  /\ UNCHANGED <<isConnected, isConnecting, error, refVars, nCalls, callPc, inCtx,
                 outCtx, stream, proc, resolved, now, birth, srcs, nMsgs, decoding,
                 dropped, mounted, lastDisc>>

\* ----------------------------------------------------------- disconnect
\* disconnect(), lines 232-272, one definition per cell it writes.
\* Lines 234-237: the tracks of the stream streamRef holds are stopped.
DiscStream == IF streamRef # 0 THEN [stream EXCEPT ![streamRef] = "stopped"] ELSE stream
\* Lines 240-243: the processor is disconnected only when both refs are set.
DiscProc ==
  IF scriptProcessorRef # 0 /\ inputContextRef # 0
    THEN [proc EXCEPT ![scriptProcessorRef] = "disconnected"] ELSE proc
DiscScriptProcessorRef ==
  IF scriptProcessorRef # 0 /\ inputContextRef # 0 THEN 0 ELSE scriptProcessorRef
\* Lines 244-247 and 255-258: the contexts the refs hold are closed.
DiscInCtx ==
  IF inputContextRef # 0 THEN [inCtx EXCEPT ![inputContextRef] = "closed"] ELSE inCtx
DiscOutCtx ==
  IF audioContextRef # 0 THEN [outCtx EXCEPT ![audioContextRef] = "closed"] ELSE outCtx
\* Lines 250-253: every source of the set is stopped and the set cleared.
DiscSrcs == StopAll(srcs, sourcesRef)
\* Lines 260-267: session.close() is chained on the promise the ref holds.
DiscTr ==
  IF sessionPromiseRef # 0
    THEN ThenTr(sessionPromiseRef, CloseCb, tr, resolved, thens, sent) ELSE tr
DiscThens ==
  IF sessionPromiseRef # 0
    THEN ThenQueue(sessionPromiseRef, CloseCb, tr, resolved, thens, sent) ELSE thens
\* disconnect() clearing the error as connect() does; C9 tells the two apart.
DiscErrorCleared == NoError

\* disconnect() has no setError call: the error cell keeps its value.
DiscError == error
\* Line 271: setVolume(0).
DiscVolume == 0

DisconnectEffect ==
  /\ UNCHANGED sideVars
  /\ stream' = DiscStream
  /\ streamRef' = 0
  /\ proc' = DiscProc
  /\ scriptProcessorRef' = DiscScriptProcessorRef
  /\ inCtx' = DiscInCtx
  /\ inputContextRef' = 0
  /\ srcs' = DiscSrcs
  /\ sourcesRef' = {}
  /\ outCtx' = DiscOutCtx
  /\ audioContextRef' = 0
  /\ tr' = DiscTr
  /\ thens' = DiscThens
  /\ sessionPromiseRef' = 0
  /\ isConnected' = FALSE
  /\ isConnecting' = FALSE
  /\ error' = DiscError
  /\ volume' = DiscVolume
  /\ lastDisc' = nCalls
  /\ UNCHANGED <<nextStartTimeRef, nCalls, callPc, resolved, sent, now, birth,
                 nMsgs, nFrames, decoding, dropped>>

\* disconnect() called by the owner of the hook.
Disconnect ==
  /\ decoding = << >> /\ mounted
  /\ DisconnectEffect
  /\ UNCHANGED mounted

\* The cleanup of the effect of lines 274-276: disconnect() at unmount.
Unmount ==
  /\ decoding = << >> /\ mounted
  /\ DisconnectEffect
  /\ mounted' = FALSE

\* ------------------------------------------------------- specifications
\* The hook driven through its interface: connect() and disconnect() may
\* be called in any state.
Next ==
  \/ Connect
  \/ ConnectThrows
  \/ \E k \in Calls : MicGranted(k)
  \/ \E k \in Calls : MicDenied(k)
  \/ \E k \in Calls : OnOpen(k)
  \/ \E k \in Calls : OnError(k)
  \/ \E k \in Calls : OnClose(k)
  \/ \E k \in Calls : Reject(k)
  \/ \E k \in Calls, audio \in {"none", "ok", "bad"}, intr \in BOOLEAN, dur \in 1..MaxDur :
       OnMessage(k, audio, intr, dur)
  \/ DecodeDone
  \/ \E m \in Msgs : SourceEnded(m)
  \/ Tick
  \/ \E p \in Calls, level \in Levels : AudioProcess(p, level)
  \/ Disconnect
  \/ Unmount

Spec == Init /\ [][Next]_vars

\* The hook driven by the LiveSession component (src/components/LiveSession.tsx):
\* connect() runs at mount and from the retry button, shown when the session
\* is neither connected nor connecting; disconnect() runs from the stop
\* button, shown when connected, and from the close button, which unmounts.
UIConnect == ~isConnected /\ ~isConnecting /\ Connect
UIConnectThrows == ~isConnected /\ ~isConnecting /\ ConnectThrows
UIStop == isConnected /\ Disconnect
UIClose == Unmount

NextUI ==
  \/ UIConnect
  \/ UIConnectThrows
  \/ \E k \in Calls : MicGranted(k)
  \/ \E k \in Calls : MicDenied(k)
  \/ \E k \in Calls : OnOpen(k)
  \/ \E k \in Calls : OnError(k)
  \/ \E k \in Calls : OnClose(k)
  \/ \E k \in Calls : Reject(k)
  \/ \E k \in Calls, audio \in {"none", "ok", "bad"}, intr \in BOOLEAN, dur \in 1..MaxDur :
       OnMessage(k, audio, intr, dur)
  \/ DecodeDone
  \/ \E m \in Msgs : SourceEnded(m)
  \/ Tick
  \/ \E p \in Calls, level \in Levels : AudioProcess(p, level)
  \/ UIStop
  \/ UIClose

SpecUI == Init /\ [][NextUI]_vars

\* The playback side of the hook under the same component, run for longer:
\* more messages, longer buffers and a longer clock.  The capture callback
\* (lines 151-169) touches none of the playback state and is left out.
PlayMessage(k, audio, intr, dur) == OnMessageTo(MaxPlayMsgs, k, audio, intr, dur)
PlayTick == TickTo(MaxPlayClock)

NextPlay ==
  \/ UIConnect
  \/ UIConnectThrows
  \/ \E k \in Calls : MicGranted(k)
  \/ \E k \in Calls : MicDenied(k)
  \/ \E k \in Calls : OnOpen(k)
  \/ \E k \in Calls : OnError(k)
  \/ \E k \in Calls : OnClose(k)
  \/ \E k \in Calls : Reject(k)
  \/ \E k \in Calls, audio \in {"none", "ok", "bad"}, intr \in BOOLEAN, dur \in 1..MaxPlayDur :
       PlayMessage(k, audio, intr, dur)
  \/ DecodeDone
  \/ \E m \in Msgs : SourceEnded(m)
  \/ PlayTick
  \/ UIStop
  \/ UIClose

PlaySpec == Init /\ [][NextPlay]_vars

\* The audio helpers run on one input: a capture frame goes through
\* downsample and, when it comes back on the sample grid (equal rates),
\* through createBlob, decode and decodeAudioData as the peer would echo
\* it; a byte buffer goes through encode, decode and decodeAudioData.
CodecInit ==
  /\ HookInit /\ PipeIdle /\ ViewIdle /\ ShellIdle
  /\ resampled = NoResample /\ payload = << >> /\ decoded = << >> /\ channelData = << >>
  /\ \/ /\ codecPc = "frame"
        /\ frame \in SeqsUpTo(SampleVals, MaxLen)
        /\ inRate \in Rates /\ outRate \in Rates
        /\ raw = << >>
     \/ /\ codecPc = "raw"
        /\ raw \in SeqsUpTo(ByteVals, MaxBytes)
        /\ frame = << >> /\ inRate = TargetRate /\ outRate = TargetRate

\* Line 161: downsample(inputData, inputCtx.sampleRate, 16000), for any rates.
Resample ==
  /\ codecPc = "frame"
  /\ resampled' = downsample(frame, inRate, outRate)
  /\ codecPc' = "resampled"
  /\ UNCHANGED <<hookVars, runs, appVars, frame, inRate, outRate, raw, payload, decoded, channelData>>

\* createBlob, lines 76-87.
CreateBlob ==
  /\ codecPc = "resampled" /\ resampled.den = 1
  /\ LET int16 == [i \in 1..Len(resampled.num) |-> PcmOf(resampled.num[i])]
     IN  /\ raw' = BytesOf(int16)
         /\ payload' = encode(BytesOf(int16))
  /\ codecPc' = "blob"
  /\ UNCHANGED <<hookVars, runs, appVars, frame, inRate, outRate, resampled, decoded, channelData>>

\* encode, lines 44-51, on a byte buffer.
Encode ==
  /\ codecPc = "raw"
  /\ payload' = encode(raw)
  /\ codecPc' = "encoded"
  /\ UNCHANGED <<hookVars, runs, appVars, frame, inRate, outRate, resampled, raw, decoded, channelData>>

\* decode, lines 33-41, on the base64 text.
Decode ==
  /\ codecPc \in {"blob", "encoded"}
  /\ decoded' = decode(payload)
  /\ codecPc' = IF codecPc = "blob" THEN "decoded" ELSE "decodedRaw"
  /\ UNCHANGED <<hookVars, runs, appVars, frame, inRate, outRate, resampled, raw, payload, channelData>>

\* decodeAudioData, lines 90-110, one channel: new Int16Array(data.buffer)
\* throws on an odd byte length; channelData[i] = dataInt16[i] / 32768.
DecodeAudioData ==
  /\ codecPc \in {"decoded", "decodedRaw"}
  /\ IF Len(decoded) % 2 # 0
       THEN codecPc' = "threw" /\ UNCHANGED channelData
       ELSE /\ channelData' = Int16sOf(decoded)
            /\ codecPc' = IF codecPc = "decoded" THEN "audio" ELSE "audioRaw"
  /\ UNCHANGED <<hookVars, runs, appVars, frame, inRate, outRate, resampled, raw, payload, decoded>>

NextCodec ==
  \/ Resample
  \/ CreateBlob
  \/ Encode
  \/ Decode
  \/ DecodeAudioData

CodecSpec == CodecInit /\ [][NextCodec]_vars

\* analyzeDocument, src/services/gemini.ts lines 237-273, called up to
\* MaxRuns times; the calls share nothing and may overlap.
Index(stage) == CHOOSE i \in 1..Len(Stages) : Stages[i] = stage

\* A pipeline that goes from classification straight to action; C26 tells
\* the two apart.
NextStageSkipping(stage) ==
  IF stage = "classification" THEN "action" ELSE Stages[Index(stage) + 1]

\* The stage reported after `stage`, lines 242-258.
NextStage(stage) == Stages[Index(stage) + 1]

\* The call up to its first remote request.  onProgress('ingestion');
\* runIngestionAgent returns a string input as it is (lines 10-12), and the
\* run goes on to onProgress('classification') and the classification
\* request; for a document it sends the ingestion request.
Analyze(r, kind) ==
  /\ runs[r].pc = "idle"
  /\ runs' = [runs EXCEPT ![r] =
       IF kind = "text"
         THEN [NoRun EXCEPT !.pc = NextStage("ingestion"),
                 !.reported = <<"ingestion", NextStage("ingestion")>>,
                 !.started = <<NextStage("ingestion")>>]
         ELSE [NoRun EXCEPT !.pc = "ingestion", !.reported = <<"ingestion">>,
                 !.started = <<"ingestion">>]]
  /\ UNCHANGED <<hookVars, codecVars, viewVars>>

\* The pending request returns.  With a usable answer the next stage is
\* reported and, unless it is 'complete', its request sent; a rejected
\* request, an empty answer or one JSON.parse throws on ends in the catch of
\* lines 268-272: onProgress('error'), and the error is thrown again.  After
\* onProgress('complete') (line 258) the result is built inside the same try
\* (lines 259-266) with crypto.randomUUID(), which a page outside a secure
\* context does not have: `made` tells whether the result was built; if not,
\* the same catch runs.
Returns(r, ok, made) ==
  /\ runs[r].pc \notin {"idle", "complete", "error"}
  /\ LET next == NextStage(runs[r].pc) IN
     /\ (~ok \/ next # "complete") => made
     /\ runs' = [runs EXCEPT ![r] =
          IF ~ok
            THEN [@ EXCEPT !.pc = "error", !.reported = Append(@, "error"),
                           !.returned = @ + 1, !.settled = "rejected"]
          ELSE IF next = "complete" /\ made
            THEN [@ EXCEPT !.pc = "complete", !.reported = Append(@, "complete"),
                           !.returned = @ + 1, !.settled = "resolved"]
          ELSE IF next = "complete"
            THEN [@ EXCEPT !.pc = "error",
                           !.reported = @ \o <<"complete", "error">>,
                           !.returned = @ + 1, !.settled = "rejected"]
            ELSE [@ EXCEPT !.pc = next, !.reported = Append(@, next),
                           !.started = Append(@, next), !.returned = @ + 1]]
  /\ UNCHANGED <<hookVars, codecVars, viewVars>>

\* analyzeDocument called on its own, with a callback that keeps the stages.
PipeAnalyze(r, kind) == Analyze(r, kind) /\ UNCHANGED shellVars
PipeReturns(r, ok, made) == Returns(r, ok, made) /\ UNCHANGED shellVars

NextPipe ==
  \/ \E r \in Runs, kind \in {"text", "document"} : PipeAnalyze(r, kind)
  \/ \E r \in Runs, ok \in BOOLEAN, made \in BOOLEAN : PipeReturns(r, ok, made)

PipeSpec == Init /\ [][NextPipe]_vars

\* ------------------------------------------------- AnalysisView playback
\* The continuation after `await decodeAudioData(...)` (line 107) is a
\* microtask: nothing else runs while a request waits there.
NoMicrotask == \A k \in Plays : playPc[k] # "awaitDecode"

Pending == {k \in Plays : playPc[k] = "awaitVoice"}

\* stopAudio, lines 49-60, on the sources and on the contexts: the source the
\* ref holds is stopped, the context the ref holds is closed.
StopAudioSrc ==
  [k \in Plays |-> IF k = audioSourceRef /\ playSrc[k] = "playing"
                     THEN "stopped" ELSE playSrc[k]]
StopAudioCtx ==
  [k \in Plays |-> IF k = viewAudioContextRef /\ playCtx[k] = "running"
                     THEN "closed" ELSE playCtx[k]]

\* handlePlayAudio on the button that is active, lines 92-95: stopAudio.
StopClick(type) ==
  /\ viewMounted /\ NoMicrotask
  /\ isPlaying = type
  /\ playSrc' = StopAudioSrc /\ playCtx' = StopAudioCtx
  /\ audioSourceRef' = 0 /\ viewAudioContextRef' = 0
  /\ isPlaying' = "null"
  /\ stale' = stale \cup Pending
  /\ UNCHANGED <<nPlays, playPc, playType, viewMounted>>
  /\ UNCHANGED <<hookVars, codecVars, runs, shellVars>>

\* handlePlayAudio on a button that is not active, lines 97-102: stopAudio,
\* setIsPlaying(type), and the voice-synthesis request it then awaits.
PlayClick(type) ==
  /\ viewMounted /\ NoMicrotask
  /\ isPlaying # type
  /\ nPlays < MaxPlays
  /\ playSrc' = StopAudioSrc /\ playCtx' = StopAudioCtx
  /\ audioSourceRef' = 0 /\ viewAudioContextRef' = 0
  /\ isPlaying' = type
  /\ nPlays' = nPlays + 1
  /\ playPc' = [playPc EXCEPT ![nPlays + 1] = "awaitVoice"]
  /\ playType' = [playType EXCEPT ![nPlays + 1] = type]
  /\ UNCHANGED <<viewMounted, stale>>
  /\ UNCHANGED <<hookVars, codecVars, runs, shellVars>>

\* generateVoiceSummary settles, lines 102-107.  With audio the context is
\* made and kept in the ref, and decodeAudioData is awaited; a rejected
\* request goes to the catch of lines 120-123.
VoiceReturns(k, ok) ==
  /\ NoMicrotask
  /\ playPc[k] = "awaitVoice"
  /\ IF ok
       THEN /\ playCtx' = [playCtx EXCEPT ![k] = "running"]
            /\ viewAudioContextRef' = k
            /\ playPc' = [playPc EXCEPT ![k] = "awaitDecode"]
            /\ UNCHANGED isPlaying
       ELSE /\ isPlaying' = "null"
            /\ playPc' = [playPc EXCEPT ![k] = "caught"]
            /\ UNCHANGED <<playCtx, viewAudioContextRef>>
  /\ UNCHANGED <<audioSourceRef, nPlays, playType, playSrc, viewMounted, stale>>
  /\ UNCHANGED <<hookVars, codecVars, runs, shellVars>>

\* After the await of line 107, lines 109-118: the source is made, kept in
\* the ref and started; audio that does not decode (atob, or an odd byte
\* length) goes to the catch.
PlayDecoded(k, ok) ==
  /\ playPc[k] = "awaitDecode"
  /\ IF ok
       THEN /\ playSrc' = [playSrc EXCEPT ![k] = "playing"]
            /\ audioSourceRef' = k
            /\ playPc' = [playPc EXCEPT ![k] = "done"]
            /\ UNCHANGED isPlaying
       ELSE /\ isPlaying' = "null"
            /\ playPc' = [playPc EXCEPT ![k] = "caught"]
            /\ UNCHANGED <<playSrc, audioSourceRef>>
  /\ UNCHANGED <<viewAudioContextRef, nPlays, playType, playCtx, viewMounted, stale>>
  /\ UNCHANGED <<hookVars, codecVars, runs, shellVars>>

\* source.onended, lines 115-118: the buffer played to its end in a running
\* context, or the event that follows stop().
PlayEnded(k) ==
  /\ NoMicrotask
  /\ \/ playSrc[k] = "playing" /\ playCtx[k] = "running"
     \/ playSrc[k] = "stopped"
  /\ playSrc' = [playSrc EXCEPT ![k] = "ended"]
  /\ isPlaying' = "null"
  /\ audioSourceRef' = 0
  /\ UNCHANGED <<viewAudioContextRef, nPlays, playPc, playType, playCtx,
                 viewMounted, stale>>
  /\ UNCHANGED <<hookVars, codecVars, runs, shellVars>>

\* The cleanup of lines 43-47 when the view unmounts: stopAudio.
ViewUnmount ==
  /\ viewMounted /\ NoMicrotask
  /\ viewMounted' = FALSE
  /\ playSrc' = StopAudioSrc /\ playCtx' = StopAudioCtx
  /\ audioSourceRef' = 0 /\ viewAudioContextRef' = 0
  /\ isPlaying' = "null"
  /\ stale' = stale \cup Pending
  /\ UNCHANGED <<nPlays, playPc, playType>>
  /\ UNCHANGED <<hookVars, codecVars, runs, shellVars>>

NextView ==
  \/ \E type \in {"summary", "action"} : StopClick(type)
  \/ \E type \in {"summary", "action"} : PlayClick(type)
  \/ \E k \in Plays, ok \in BOOLEAN : VoiceReturns(k, ok)
  \/ \E k \in Plays, ok \in BOOLEAN : PlayDecoded(k, ok)
  \/ \E k \in Plays : PlayEnded(k)
  \/ ViewUnmount

ViewSpec == Init /\ [][NextView]_vars

\* ------------------------------------------------------------ App shell
\* src/App.tsx.  A result is named by a number, a newer result by a larger
\* one: the r-th analyzeDocument call of the run makes result r, the results
\* saved by earlier visits are -1 (the newest), -2, ...
OldResults(n) == [i \in 1..n |-> 0 - i]

\* What local storage can hold when the page loads: nothing, or a history
\* that saveToHistory wrote.
StoredStates ==
  {NoStore} \cup {[set |-> TRUE, items |-> OldResults(n)] :
                     n \in {0, 1, HistoryCap - 1, HistoryCap}}

Take(h, n) == SubSeq(h, 1, Min(n, Len(h)))

\* A history that is never cut; C36 tells the two apart.
NewHistoryUncut(newResult, h) == <<newResult>> \o h

\* Line 35: [newResult, ...history].slice(0, 10).
NewHistory(newResult, h) == Take(<<newResult>> \o h, HistoryCap)

\* The analyzeDocument call that handleAnalyze is awaiting.
InFlight == {r \in Runs : runs[r].settled = "pending" /\ runs[r].pc # "idle"}

\* The effect of lines 23-32, after the first render.
LoadHistory ==
  /\ ~loaded
  /\ loaded' = TRUE
  /\ history' = IF stored.set THEN stored.items ELSE history
  /\ UNCHANGED <<input, isAnalyzing, agentStage, result, stored, seenHistory, selected>>
  /\ UNCHANGED <<hookVars, codecVars, runs, viewVars>>

\* DocumentInput calls onInputChanged (line 179): a text, a file, or null.
SetInput(v) ==
  /\ loaded
  /\ input' = v
  /\ UNCHANGED <<isAnalyzing, agentStage, result, history, stored, loaded,
                 seenHistory, selected>>
  /\ UNCHANGED <<hookVars, codecVars, runs, viewVars>>

\* The Run Analysis button (disabled while !input || isAnalyzing, line 183):
\* handleAnalyze up to its await, lines 40-52, with analyzeDocument up to its
\* first request.  A file goes as a document when it has data and a MIME
\* type (line 48), as its (empty) text otherwise.
HandleAnalyze(r, kind) ==
  /\ loaded
  /\ input # "null" /\ ~isAnalyzing
  /\ input = "text" => kind = "text"
  /\ \A q \in Runs : q < r <=> runs[q].pc # "idle"
  /\ Analyze(r, kind)
  /\ isAnalyzing' = TRUE
  /\ agentStage' = runs'[r].reported[Len(runs'[r].reported)]
  /\ result' = 0
  /\ seenHistory' = history
  /\ selected' = FALSE
  /\ UNCHANGED <<input, history, stored, loaded>>

\* A request of the running analysis returns: onProgress is setAgentStage
\* (line 52); when analyzeDocument resolves, lines 53-54 and saveToHistory
\* (lines 34-38) with the history its closure saw; when it rejects, the
\* catch; either way the finally of line 59.
AnalysisReturns(r, ok, made) ==
  /\ r \in InFlight
  /\ Returns(r, ok, made)
  /\ agentStage' = runs'[r].reported[Len(runs'[r].reported)]
  /\ isAnalyzing' = (runs'[r].settled = "pending")
  /\ IF runs'[r].settled = "resolved"
       THEN /\ result' = r
            /\ history' = NewHistory(r, seenHistory)
            /\ stored' = [set |-> TRUE, items |-> history']
       ELSE UNCHANGED <<result, history, stored>>
  /\ UNCHANGED <<input, loaded, seenHistory, selected>>

\* The logo, line 120.
LogoClick ==
  /\ loaded
  /\ result' = 0 /\ input' = "null"
  /\ UNCHANGED <<isAnalyzing, agentStage, history, stored, loaded, seenHistory, selected>>
  /\ UNCHANGED <<hookVars, codecVars, runs, viewVars>>

\* onSelect of the history panel, line 262, with an entry of the history.
HistorySelect(i) ==
  /\ loaded
  /\ i \in 1..Len(history)
  /\ result' = history[i]
  /\ agentStage' = "complete"
  /\ selected' = TRUE
  /\ UNCHANGED <<input, isAnalyzing, history, stored, loaded, seenHistory>>
  /\ UNCHANGED <<hookVars, codecVars, runs, viewVars>>

ShellInit ==
  /\ HookInit /\ CodecIdle /\ PipeIdle /\ ViewIdle
  /\ \E st \in StoredStates : ShellStart(st)

NextShell ==
  \/ LoadHistory
  \/ \E v \in {"null", "text", "file"} : SetInput(v)
  \/ \E r \in Runs, kind \in {"text", "document"} : HandleAnalyze(r, kind)
  \/ \E r \in Runs, ok \in BOOLEAN, made \in BOOLEAN : AnalysisReturns(r, ok, made)
  \/ LogoClick
  \/ \E i \in 1..HistoryCap : HistorySelect(i)

ShellSpec == ShellInit /\ [][NextShell]_vars

\* ================================================================ claims
LiveStreams == {k \in Calls : stream[k] = "live"}
OpenTransports == {k \in Calls : tr[k] = "open"}
ActiveProcs == {k \in Calls : proc[k] = "active"}
RunningCtxs == {k \in Calls : inCtx[k] = "running" \/ outCtx[k] = "running"}

\* A step that is a call of connect().
ConnectStep == nCalls' = nCalls + 1

\* C1: connect() called while connecting or connected is a no-op: the
\* session state, the refs, the audio contexts, the microphone streams and
\* the transports are all left as they were.
C1_ConnectWhileActiveIsNoOp ==
  [][ConnectStep /\ (isConnecting \/ isConnected)
       => UNCHANGED <<stateVars, refVars, inCtx, outCtx, stream, tr>>]_vars

\* C2: in every reachable state at most one transport is open and at most
\* one microphone stream is live.
C2_AtMostOneTransportAndMic ==
  /\ Cardinality(OpenTransports) <= 1
  /\ Cardinality(LiveStreams) <= 1

\* The state C3 and C6 require after a teardown.
TornDown ==
  /\ ~isConnected /\ ~isConnecting /\ volume = 0
  /\ LiveStreams = {} /\ streamRef = 0
  /\ ActiveProcs = {} /\ scriptProcessorRef = 0
  /\ sourcesRef = {}
  /\ RunningCtxs = {} /\ inputContextRef = 0 /\ audioContextRef = 0
  /\ sessionPromiseRef = 0

\* C3: right after disconnect(), from any state, the controller is
\* disconnected with volume 0, no microphone stream is live, no processor is
\* active, the source set is empty, no audio context runs and the transport
\* reference is null.
C3_DisconnectReleasesAll == [][DisconnectEffect => TornDown']_vars

\* C4: once disconnect() (or the unmount) has run after the latest
\* connect(), that call's pending steps leave nothing behind: its stream is
\* not live, its transport is not open and the controller is not connected.
C4_CancelledConnectStaysDown ==
  (nCalls > 0 /\ lastDisc = nCalls)
    => /\ stream[nCalls] # "live"
       /\ tr[nCalls] # "open"
       /\ ~isConnected

\* A step that handles, or finishes handling, a message of a transport
\* whose connect() was followed by a disconnect().
LateMessageStep ==
  \/ \E k \in Calls, audio \in {"none", "ok", "bad"}, intr \in BOOLEAN, dur \in 1..MaxDur :
       k <= lastDisc /\ OnMessage(k, audio, intr, dur)
  \/ (DecodeDone /\ decoding[1].tr <= lastDisc)

\* C5: a message delivered after disconnect() has no effect on playback:
\* the source set, nextStartTime and the scheduled buffers stay as they were.
C5_LateMessageNoEffect ==
  [][LateMessageStep => UNCHANGED <<sourcesRef, nextStartTimeRef, srcs>>]_vars

\* C6: the error callback of the open transport, fired while connected,
\* records an error and tears down as disconnect() does.
C6_ErrorWhileConnectedTearsDown ==
  [][(isConnected /\ \E k \in Calls : tr[k] = "open" /\ OnError(k))
       => (error' # NoError /\ ~isConnected' /\ volume' = 0 /\ LiveStreams' = {}
           /\ ActiveProcs' = {} /\ sourcesRef' = {} /\ sessionPromiseRef' = 0)]_vars

\* C7: when the transport of the latest connect() has failed to open
\* (rejected, or errored before it opened) and no disconnect() followed, the
\* controller is not connecting, not connected and shows an error.
C7_FailedOpenEndsConnecting ==
  \A k \in Calls :
    (k = nCalls /\ lastDisc < k /\ ~resolved[k] /\ tr[k] \in {"rejected", "failed", "closed"})
      => (~isConnecting /\ ~isConnected /\ error # NoError)

\* C8: when the microphone request of a connect() is denied, the state right
\* after is not connected, not connecting, with an error recorded.
C8_MicDeniedDisconnects ==
  [][(\E k \in Calls : MicDenied(k))
       => (~isConnected' /\ ~isConnecting' /\ error' # NoError)]_vars

\* A second disconnect() would change nothing.
DisconnectFixed ==
  /\ DiscStream = stream /\ streamRef = 0
  /\ DiscProc = proc /\ DiscScriptProcessorRef = scriptProcessorRef
  /\ DiscInCtx = inCtx /\ inputContextRef = 0
  /\ DiscOutCtx = outCtx /\ audioContextRef = 0
  /\ DiscSrcs = srcs /\ sourcesRef = {}
  /\ DiscTr = tr /\ DiscThens = thens /\ sessionPromiseRef = 0
  /\ ~isConnected /\ ~isConnecting
  /\ DiscError = error /\ DiscVolume = volume
  /\ lastDisc = nCalls

\* C9: disconnect() is idempotent (the state it leaves is one a second
\* disconnect() leaves unchanged), and called while disconnected it keeps
\* connected, connecting and error as they are and sets volume to 0.
C9_DisconnectIdempotent ==
  [][DisconnectEffect
       => /\ DisconnectFixed'
          /\ (~isConnected /\ ~isConnecting)
               => (~isConnected' /\ ~isConnecting' /\ error' = error /\ volume' = 0)]_vars

C9_Witness ==
  /\ DisconnectFixed /\ nCalls > 0
  /\ error # NoError
  /\ \E k \in Calls : stream[k] = "stopped"

\* C10: connected is entered only from connecting, by the open callback of
\* the transport of the latest connect(), with no disconnect() in between.
C10_ConnectedOnlyFromConnecting ==
  [][(~isConnected /\ isConnected')
       => (isConnecting /\ nCalls > 0 /\ lastDisc < nCalls
           /\ tr[nCalls] = "opening" /\ tr'[nCalls] # "opening")]_vars

\* C11: the session is never connected and connecting at once.  connect()
\* raises the connecting flag whatever the connected flag says (lines
\* 112-114), so this fails when connect() is called on a connected session.
C11_NotConnectedAndConnecting == ~(isConnected /\ isConnecting)

\* The transports whose error or close callback has fired.
Terminal == {k \in Calls : tr[k] \in {"failed", "closed"}}

\* C12: a transport whose error or close callback has fired is terminal:
\* no frame is sent on it again and the controller no longer holds a
\* reference to it.  onerror and onclose (lines 210-219) leave
\* sessionPromiseRef pointing at the dead session.
C12_TerminalTransportDropped ==
  [][\A k \in Calls :
       tr'[k] \in {"failed", "closed"}
         => /\ sessionPromiseRef' # k
            /\ k \in Terminal => sent'[k] = sent[k]]_vars

\* C13: a capture frame is processed, and a frame is sent, only on a
\* transport that has opened and has seen neither a disconnect nor an error
\* or close since, with its microphone still held.  onerror and onclose
\* (lines 210-219) leave the processor and the microphone running.
C13_CaptureOnlyWhileOpen ==
  [][/\ \A p \in Calls, level \in Levels :
          AudioProcess(p, level) => tr[p] = "open" /\ stream[p] = "live"
     /\ \A k \in Calls : sent'[k] # sent[k] => tr[k] = "open"]_vars

\* C14: a capture frame taken while the session is connected is handed to
\* exactly one transport, once, in the step that captures it, after the
\* frames captured before it.  The frame goes to whatever promise
\* sessionPromiseRef holds (lines 163-167), which after a second connect()
\* is a transport that has not opened yet.
C14_FrameSentOnceInOrder ==
  [][\A p \in Calls, level \in Levels :
       (isConnected /\ AudioProcess(p, level))
         => \E k \in Calls :
              /\ sent'[k] = Append(sent[k], nFrames + 1)
              /\ \A j \in Calls \ {k} : sent'[j] = sent[j]]_vars

\* The transports ever created by live.connect (line 131).
Opened == {k \in Calls : tr[k] # "none"}

\* The session is down and the transport of the latest connect() has failed.
FailedDown ==
  /\ ~isConnected /\ ~isConnecting
  /\ nCalls > 0 /\ tr[nCalls] \in {"failed", "closed", "rejected"}

\* C15: no transport is opened but by a connect() call, and a session that
\* went down on a failure stays down until connect() is called again.  The
\* hook itself never reconnects, but the onopen of an earlier connect()'s
\* transport still raises the connected flag (lines 141-145).
C15_NoAutomaticRetry ==
  [][/\ Cardinality(Opened') <= nCalls'
     /\ (FailedDown /\ (isConnected' \/ isConnecting')) => ConnectStep]_vars

\* C16: when the session leaves connecting or connected for disconnected
\* by anything but disconnect(), an error is set afterwards.  onclose
\* (lines 210-213) lowers the connected flag and sets no error.
C16_UnrequestedDownSetsError ==
  [][((isConnected \/ isConnecting) /\ ~isConnected' /\ ~isConnecting'
        /\ lastDisc' = lastDisc /\ mounted' = mounted)
       => error' # NoError]_vars

\* The buffers handed to an output context and not force-stopped since.
Played == {m \in Msgs : srcs[m].st \in {"scheduled", "ended"}}

\* Buffers that play without overlap in each output context: a buffer
\* scheduled after another one in the same context starts no earlier than
\* the other one starts, and no earlier than it ends.
NoOverlap ==
  \A a \in Played, b \in Played :
    (a < b /\ srcs[a].ctx = srcs[b].ctx)
      => /\ srcs[a].start <= srcs[b].start
         /\ srcs[a].start + srcs[a].dur <= srcs[b].start

\* C17: a buffer is scheduled at the later of nextStartTime and the clock
\* of its context, nextStartTime then becomes its end, and buffers
\* scheduled in a context with no interruption between them never overlap.
C17_SchedulingRule ==
  [][/\ DecodeDone =>
          LET d == decoding[1] IN
            /\ srcs'[d.msg].start >= nextStartTimeRef
            /\ srcs'[d.msg].start >= CurrentTime(d.ctx)
            /\ srcs'[d.msg].start \in {nextStartTimeRef, CurrentTime(d.ctx)}
            /\ ~d.intr => nextStartTimeRef' = srcs'[d.msg].start + d.dur
     /\ NoOverlap']_vars

\* Two buffers of one context scheduled back to back: the second one was
\* decoded before the first one ended and starts at the end of the first.
C17_Witness ==
  \E a \in Played, b \in Played :
    /\ a < b /\ srcs[a].ctx = srcs[b].ctx
    /\ srcs[b].start = srcs[a].start + srcs[a].dur
    /\ srcs[b].start > CurrentTime(srcs[b].ctx)
    /\ nextStartTimeRef = srcs[b].start + srcs[b].dur

\* The interrupted branch (lines 202-208) has run in this step: every
\* source of the set is stopped, the set is empty, nextStartTime is 0.
Flushed ==
  /\ \A m \in sourcesRef : srcs'[m].st = "stopped"
  /\ sourcesRef' = {}
  /\ nextStartTimeRef' = 0

\* A message that reaches the interrupted check without awaiting a decode.
NoDecode(audio) == audio = "none" \/ audioContextRef = 0

\* C18: once an interruption is handled every source of the set is
\* stopped, the set is empty and nextStartTime is 0, and a buffer scheduled
\* while nextStartTime is 0 starts at the clock of its context.
C18_InterruptionFlushes ==
  [][/\ \A k \in Calls, audio \in {"none", "ok", "bad"}, dur \in 1..MaxPlayDur :
          (PlayMessage(k, audio, TRUE, dur) /\ NoDecode(audio)) => Flushed
     /\ (DecodeDone /\ decoding[1].intr)
          => Flushed /\ srcs'[decoding[1].msg].st = "stopped"
     /\ (DecodeDone /\ nextStartTimeRef = 0)
          => srcs'[decoding[1].msg].start = CurrentTime(decoding[1].ctx)]_vars

\* Two buffers queued back to back and stopped by an interruption, and a
\* third buffer of the same context, scheduled after it, that starts at the
\* clock, before the nextStartTime the interruption found.
C18_Witness ==
  \E a \in Msgs, b \in Msgs, c \in Msgs :
    /\ a < b /\ b < c
    /\ srcs[a].st = "stopped" /\ srcs[b].st = "stopped" /\ srcs[c].st = "scheduled"
    /\ srcs[a].ctx = srcs[b].ctx /\ srcs[b].ctx = srcs[c].ctx
    /\ srcs[b].start = srcs[a].start + srcs[a].dur
    /\ srcs[c].start < srcs[b].start
    /\ sourcesRef = {c}

\* C19: the flush is performed for every message whose interrupted flag is
\* set, whatever its audio payload, and a well-formed payload is scheduled
\* whatever the flag.  A payload that fails to decode throws out of the
\* handler (lines 177-184) before the flag is looked at.
C19_AudioAndFlagIndependent ==
  [][/\ \A k \in Calls, audio \in {"none", "ok", "bad"}, dur \in 1..MaxPlayDur :
          (PlayMessage(k, audio, TRUE, dur) /\ decoding' = << >>)
            => sourcesRef' = {} /\ nextStartTimeRef' = 0
     /\ (DecodeDone /\ decoding[1].intr) => sourcesRef' = {} /\ nextStartTimeRef' = 0
     /\ \A k \in Calls, intr \in BOOLEAN, dur \in 1..MaxPlayDur :
          (PlayMessage(k, "ok", intr, dur) /\ audioContextRef # 0)
            => decoding' # << >>
     /\ DecodeDone => srcs'[decoding[1].msg].st # "none"]_vars

\* C20: a message whose payload fails to decode changes nothing but the
\* count of messages: flags, error, source set, sources, nextStartTime and
\* transports stay as they were, and the well-formed messages after it are
\* decoded and scheduled.
C20_MalformedAudioDropped ==
  [][/\ \A k \in Calls, intr \in BOOLEAN, dur \in 1..MaxPlayDur :
          (PlayMessage(k, "bad", intr, dur) /\ audioContextRef # 0)
            => /\ UNCHANGED <<stateVars, refVars, srcs, tr, sent, thens>>
               /\ decoding' = << >>
     /\ \A k \in Calls, intr \in BOOLEAN, dur \in 1..MaxPlayDur :
          (PlayMessage(k, "ok", intr, dur) /\ audioContextRef # 0)
            => decoding' # << >>
     /\ DecodeDone => srcs'[decoding[1].msg].st # "none"]_vars

\* A connected session that dropped a malformed message and scheduled a
\* later one.
C20_Witness ==
  /\ isConnected /\ error = NoError
  /\ \E a \in dropped, b \in Msgs :
       a < b /\ srcs[b].st = "scheduled" /\ b \in sourcesRef

\* C21: the published volume is always within [0, 1]; every capture frame
\* publishes min(1, 5 * RMS), whether or not the frame can be sent; the
\* volume is 0 at the start and right after disconnect().
C21_VolumeInUnitRange ==
  [][/\ volume \in 0..FullVolume /\ volume' \in 0..FullVolume
     /\ \A p \in Calls, level \in Levels :
          AudioProcess(p, level)
            => volume' = (IF level < FullVolume THEN level ELSE FullVolume)
     /\ (Disconnect \/ Unmount) => volume' = 0
     /\ nCalls = 0 => volume = 0]_vars

\* A frame louder than full scale was metered at 1 although it reached no
\* transport: its session had already failed.
C21_Witness ==
  /\ volume = FullVolume /\ nFrames > 0
  /\ \A k \in Calls : sent[k] = << >> /\ thens[k] = << >>
  /\ sessionPromiseRef # 0 /\ tr[sessionPromiseRef] = "failed"

\* The error of one sample after the encoder and the decoder, in units of
\* 1 / SampleDen; one 16-bit step is SampleDen \div PcmDiv of them.
RoundTripError(i) == channelData[i] * (SampleDen \div PcmDiv) - frame[i]
InRange(c) == -SampleDen <= c /\ c <= SampleDen

\* C22 as stated: a sample in [-1, 1] comes back from the encoder and the
\* decoder within one 16-bit step, 1/32768.
C22_RoundTripWithinOneStep ==
  codecPc = "audio"
    => \A i \in 1..Len(frame) :
         InRange(frame[i])
           => /\ RoundTripError(i) <= SampleDen \div PcmDiv
              /\ -RoundTripError(i) <= SampleDen \div PcmDiv

\* C22, amended: a sample in [-1, 1] comes back within less than two 16-bit
\* steps, 2/32768, as many samples as went in.
C22_RoundTripWithinTwoSteps ==
  codecPc = "audio"
    => /\ Len(channelData) = Len(frame)
       /\ \A i \in 1..Len(frame) :
            InRange(frame[i])
              => /\ RoundTripError(i) < 2 * (SampleDen \div PcmDiv)
                 /\ -RoundTripError(i) < 2 * (SampleDen \div PcmDiv)

\* A sample just below full scale came back more than one step away.
C22_Witness ==
  /\ codecPc = "audio"
  /\ \E i \in 1..Len(frame) :
       /\ frame[i] = SampleDen - 1
       /\ -RoundTripError(i) > SampleDen \div PcmDiv

\* C23: decode(encode(b)) is b, byte for byte, for every byte buffer.
C23_Base64RoundTrip ==
  codecPc \in {"decoded", "decodedRaw"} => decoded = raw

\* A buffer with bytes 0 and 255 whose length is not a multiple of three
\* came back from encode and decode with its padding gone.
C23_Witness ==
  /\ codecPc = "decodedRaw" /\ decoded = raw
  /\ Len(raw) % 3 # 0 /\ payload[Len(payload)] = B64Pad
  /\ \E i, j \in 1..Len(raw) : raw[i] = 0 /\ raw[j] = 255

\* C24: the output of the resampler has the integer nearest to
\* length * targetRate / sourceRate samples, halves upwards, and a capture
\* frame resampled to the target rate from a rate no lower is no longer
\* than the frame.
C24_ResampledLength ==
  codecPc = "resampled"
    => /\ LET n == Len(resampled.num) IN
            /\ 2 * n * inRate - 2 * Len(frame) * outRate <= inRate
            /\ 2 * Len(frame) * outRate - 2 * n * inRate < inRate
       /\ inRate >= TargetRate
            => NewLength(FrameSize, inRate, TargetRate) <= FrameSize

\* Two samples at three times the target rate became one: 2/3 rounded up.
C24_Witness ==
  /\ codecPc = "resampled"
  /\ inRate = 3 * TargetRate /\ outRate = TargetRate
  /\ Len(frame) = 2 /\ Len(resampled.num) = 1

\* C25: with equal rates the resampler returns its input: same length,
\* same sample values.
C25_EqualRatesIdentity ==
  (codecPc = "resampled" /\ inRate = outRate)
    => /\ Len(resampled.num) = Len(frame)
       /\ \A i \in 1..Len(frame) : resampled.num[i] = frame[i] * resampled.den

\* A full frame with a silent sample went through at a rate other than the
\* capture target.
C25_Witness ==
  /\ codecPc = "resampled" /\ inRate = outRate /\ inRate # TargetRate
  /\ Len(frame) = MaxLen /\ resampled.num = frame
  /\ \E i \in 1..Len(frame) : frame[i] = 0

\* The stages a run reported before 'error', if it reported that.
StagesOf(r) ==
  LET rp == runs[r].reported IN
  IF rp # << >> /\ rp[Len(rp)] = "error" THEN SubSeq(rp, 1, Len(rp) - 1) ELSE rp

\* C26: a run reports its stages in the order ingestion, classification,
\* extraction, action, complete, each at most once and none skipped; a
\* request is sent only once the one before it has returned, for a stage
\* reported before; a run that completes has reported all five.
C26_StagesInOrder ==
  \A r \in Runs :
    /\ Len(StagesOf(r)) <= Len(Stages)
    /\ \A i \in 1..Len(StagesOf(r)) : StagesOf(r)[i] = Stages[i]
    /\ runs[r].pc = "complete" => StagesOf(r) = Stages
    /\ Len(runs[r].started) - runs[r].returned \in {0, 1}
    /\ \A i \in 1..Len(runs[r].started) :
         /\ \E j \in 1..Len(StagesOf(r)) : StagesOf(r)[j] = runs[r].started[i]
         /\ i > 1 => Index(runs[r].started[i]) = Index(runs[r].started[i - 1]) + 1

\* A document went through all four requests to 'complete' while another
\* run failed in extraction.
C26_Witness ==
  \E r \in Runs, q \in Runs :
    /\ runs[r].pc = "complete" /\ runs[r].reported = Stages
    /\ runs[r].started = SubSeq(Stages, 1, 4) /\ runs[r].returned = 4
    /\ runs[q].pc = "error"
    /\ runs[q].reported = <<"ingestion", "classification", "extraction", "error">>

\* The interrupted branch runs in this step.
FlushStep ==
  \/ \E k \in Calls, audio \in {"none", "ok", "bad"}, dur \in 1..MaxPlayDur :
       PlayMessage(k, audio, TRUE, dur) /\ NoDecode(audio)
  \/ DecodeDone /\ decoding[1].intr

\* C27: once an interruption is handled no buffer of a message up to it is
\* pending or playing, and none is scheduled later: the decode a handler
\* awaits is over before the next message is handled, so the buffer
\* scheduled is always that of the latest message.
C27_NoAudioSurvivesFlush ==
  [][/\ FlushStep => \A m \in 1..nMsgs' : srcs'[m].st # "scheduled"
     /\ DecodeDone => decoding[1].msg = nMsgs
     /\ \A m \in Msgs :
          (srcs[m].st # "scheduled" /\ srcs'[m].st = "scheduled")
            => DecodeDone /\ m = nMsgs]_vars

\* A buffer that was still pending or playing was stopped by the
\* interruption of a later message, in a session that is still up.
C27_Witness ==
  \E a \in Msgs :
    /\ a < nMsgs /\ srcs[a].st = "stopped" /\ srcs[nMsgs].st = "none"
    /\ nMsgs \notin dropped
    /\ audioContextRef = srcs[a].ctx
    /\ srcs[a].start + srcs[a].dur > CurrentTime(srcs[a].ctx)
    /\ sourcesRef = {} /\ nextStartTimeRef = 0

\* The messages that made a buffer.
WithAudio == {m \in Msgs : srcs[m].st # "none"}

\* C28 as stated: of two messages with audio the earlier one's buffer
\* starts no later than the later one's.
C28_StartsInArrivalOrder ==
  \A a \in WithAudio, b \in WithAudio :
    (a < b /\ srcs[a].ctx = srcs[b].ctx) => srcs[a].start <= srcs[b].start

\* C28, amended: of two messages with audio handled in one session with no
\* interruption that stopped the earlier one's buffer, the earlier one's
\* buffer starts no later; a handler's decode never waits across the
\* arrival of another message.
C28_StartsInArrivalOrderUntilFlush ==
  /\ decoding # << >> => decoding[1].msg = nMsgs
  /\ \A a \in WithAudio, b \in WithAudio :
       (a < b /\ srcs[a].ctx = srcs[b].ctx /\ srcs[a].st # "stopped")
         => srcs[a].start <= srcs[b].start

\* A buffer queued behind another one was interrupted, and the buffer of
\* the next message starts at the clock, before it.
C28_Witness ==
  \E a \in WithAudio, b \in WithAudio :
    /\ a < b /\ srcs[a].ctx = srcs[b].ctx
    /\ srcs[a].st = "stopped" /\ srcs[b].st = "scheduled"
    /\ srcs[b].start < srcs[a].start

\* C29: the sources of the set are the sources scheduled and not yet ended
\* or stopped; a source that ended stays ended whatever stops the set.
C29_SetHoldsLiveSources ==
  [][/\ sourcesRef' = {m \in Msgs : srcs'[m].st = "scheduled"}
     /\ \A m \in Msgs : srcs[m].st = "ended" => srcs'[m].st = "ended"
     /\ \A m \in Msgs : srcs[m].st = "stopped" => srcs'[m].st = "stopped"]_vars

\* One buffer played to its end, a later one was stopped, a third one is
\* in the set.
C29_Witness ==
  \E a \in Msgs, b \in Msgs, c \in Msgs :
    /\ a < b /\ b < c
    /\ srcs[a].st = "ended" /\ srcs[b].st = "stopped" /\ srcs[c].st = "scheduled"
    /\ sourcesRef = {c}

\* C30: with different rates, output sample i is v0 + (v1 - v0) * t for the
\* samples v0, v1 that bracket position i * sourceRate / targetRate, the last
\* sample standing in for one past the end.  A bracketing sample that is
\* exactly 0 is taken for a missing one by buffer[ceil] || buffer[floor]
\* (line 67).
C30_LinearInterpolation ==
  (codecPc = "resampled" /\ inRate # outRate)
    => \A i \in 0..(Len(resampled.num) - 1) :
         LET floor == (i * inRate) \div outRate
             rem   == (i * inRate) % outRate
             ceil  == IF rem = 0 THEN floor ELSE floor + 1
             v0    == frame[floor + 1]
             v1    == frame[(IF ceil < Len(frame) THEN ceil ELSE Len(frame) - 1) + 1]
         IN  resampled.num[i + 1] = v0 * outRate + (v1 - v0) * rem


\* C34: a connect() that fails (the microphone request is denied, or a
\* constructor throws) leaves nothing it acquired open: right after the step
\* into the catch, neither audio context of that call is running and no
\* microphone stream of it is live.
C34_FailedConnectReleasesAll ==
  [][\A k \in Calls :
       (callPc[k] # "caught" /\ callPc'[k] = "caught")
         => (inCtx'[k] # "running" /\ outCtx'[k] # "running" /\ stream'[k] # "live")]_vars

\* The stage a run reported last.
LastReported(r) == runs[r].reported[Len(runs[r].reported)]

\* C33: a run of analyzeDocument that has ended made exactly one terminal
\* report, and it is the last one: 'complete' exactly when the call resolved,
\* 'error' exactly when it rejected; a run still going has made none.
C33_OneTerminalReport ==
  \A r \in Runs :
    LET rp == runs[r].reported
        terminal == {i \in 1..Len(rp) : rp[i] \in {"complete", "error"}}
    IN  /\ runs[r].settled = "pending" => terminal = {}
        /\ runs[r].settled # "pending" => terminal = {Len(rp)}
        /\ runs[r].settled = "resolved" <=> (rp # << >> /\ LastReported(r) = "complete")
        /\ runs[r].settled = "rejected" <=> (rp # << >> /\ LastReported(r) = "error")

\* A source that can be heard: started, not stopped, in a running context.
Audible == {k \in Plays : playSrc[k] = "playing" /\ playCtx[k] = "running"}

\* C31: in the analysis view at most one playback source is audible at any
\* time and at most one audio context is open, whatever the order of the
\* clicks and of the answers to the voice requests.
C31_OnePlaybackAtATime ==
  /\ Cardinality(Audible) <= 1
  /\ Cardinality({k \in Plays : playCtx[k] = "running"}) <= 1

\* C32: whenever isPlaying is null nothing is audible, and a request that
\* was pending when the user stopped playback (the active button, or the
\* unmount) never starts a source.
C32_IndicatorAgreesWithPlayback ==
  /\ isPlaying = "null" => Audible = {}
  /\ \A k \in stale : playSrc[k] = "none"

\* The analyses that succeeded.
Succeeded == {r \in Runs : runs[r].settled = "resolved"}

\* C35: isAnalyzing is true exactly while an analysis is in progress, and
\* one at most is; the step in which an analysis succeeds displays its
\* result and puts it in the history; the step in which it fails leaves the
\* displayed result null and the history as it was; the history changes in
\* no other step.
C35_AnalysisEndsCleanly ==
  [][loaded =>
       /\ isAnalyzing' <=> InFlight' # {}
       /\ Cardinality(InFlight') <= 1
       /\ \A r \in InFlight :
            /\ runs'[r].settled = "resolved"
                 => (result' = r /\ history' # << >> /\ history'[1] = r)
            /\ runs'[r].settled = "rejected"
                 => (result' = 0 /\ history' = history /\ stored' = stored)
       /\ history' # history => Succeeded' # Succeeded]_vars

=============================================================================
